---- MODULE Spec2Model ----
(***************************************************************************)
(* Aetheria: task orchestration (TaskManager.executeTask), bulk dispatch   *)
(* (SSHManager.executeBulkCommand), remote execution                       *)
(* (SSHManager.executeCommand) and the POST /api/tasks/execute route.      *)
(*                                                                         *)
(* JavaScript runs one synchronous segment at a time, so every action is   *)
(* one segment between two awaits.  An awaited database call is two        *)
(* steps: the database applies (or rejects) the statement, and later the   *)
(* continuation of the awaiting function runs.                             *)
(***************************************************************************)
EXTENDS Integers, Sequences, FiniteSets, TLC

\* ---------------------------------------------------------------- bounds
MaxTargets == 3         \* longest serverIds list a request carries
MaxK == 2               \* largest options.maxConcurrent a request carries

\* ------------------------------------------------------ program constants
DefaultMaxConcurrent == 5
MinMaxConcurrent == 1
MaxConcurrentCap == 20
AuthFailCode == -1

\* The requests in flight.  Tasks share nothing but the registry and the
\* tables, each under its own key.
Requests == {1}

NULL == "null"

\* Rows of the servers table as the model starts: id 1 has a key file and a
\* password, id 2 a password and a private_key_path naming no file, id 3
\* neither; no other id exists.  key_file is what fs.existsSync answers for
\* the row's private_key_path.
InitialServers ==
  [id \in 1..3 |->
     [id |-> id, private_key_path |-> (id \in {1, 2}), key_file |-> (id = 1),
      password |-> (id \in {1, 2}), status |-> "unknown"]]

ServerIdInputs == 1..4
CommandInputs == {"", "cmd"}
\* options.maxConcurrent of a request body: <<>> when not given, else <<k>>.
MaxConcurrentInputs ==
  {<<>>} \cup {<<k>> : k \in (0..MaxK) \cup {MaxConcurrentCap + 1}}
ExitCodes == {0, 1}

SeqsUpTo(S, n) == UNION {[1..m -> S] : m \in 0..n}

\* ----------------------------------------------------------------- state
VARIABLES
  servers,        \* table servers: id -> row
  tasks,          \* table tasks: sequence of rows, AUTOINCREMENT id = index
  logs,           \* table logs: sequence of rows
  runningTasks,   \* TaskManager.runningTasks: the keys of the Map
  events,         \* what io.emit has broadcast, in order
  sessions,       \* number of SSH sessions open
  pc,             \* per request: the await it is suspended at
  ret,            \* per request: state of the awaited promise
  body,           \* per request: the request body
  taskId,         \* per request: executeTask's taskId
  validServers,   \* per request: executeTask's validServers
  upd,            \* per request: arguments of the pending updateTaskStatus
  bulk,           \* per request: the executeBulkCommand call (i, batch, results)
  results,        \* per request: executeTask's results
  logIdx,         \* per request: position of the for..of loop over results
  raised,         \* per request: message of the error caught by executeTask
  response        \* per request: HTTP response sent

vars == <<servers, tasks, logs, runningTasks, events, sessions, pc, ret, body,
          taskId, validServers, upd, bulk, results, logIdx, raised, response>>

dbVars == <<servers, tasks, logs>>
localVars == <<body, taskId, validServers, upd, bulk, results, logIdx, raised>>

\* An awaited promise: not yet settled, resolved with a value, or rejected.
NoPromise == [st |-> "none", val |-> NULL]
Pending == [st |-> "pending", val |-> NULL]
Resolved(v) == [st |-> "ok", val |-> v]
Rejected(msg) == [st |-> "err", val |-> msg]

DbError == "SQLITE_ERROR"
NoServersError == "No valid servers found"
NoAuthError == "No authentication method available"
\* error.message of what ssh.connect or ssh.execCommand rejected with.
TransportError == "transport error"

NoBulk == [phase |-> "none", k |-> 0, i |-> 0, batch |-> <<>>, results |-> <<>>, delays |-> 0]

\* The state after construction, with the requests R yet to arrive.
InitOver(R) ==
  /\ servers = InitialServers
  /\ tasks = <<>>
  /\ logs = <<>>
  /\ runningTasks = {}
  /\ events = <<>>
  /\ sessions = 0
  /\ pc = [r \in R |-> "idle"]
  /\ ret = [r \in R |-> NoPromise]
  /\ body = [r \in R |-> NULL]
  /\ taskId = [r \in R |-> 0]
  /\ validServers = [r \in R |-> <<>>]
  /\ upd = [r \in R |-> NULL]
  /\ bulk = [r \in R |-> NoBulk]
  /\ results = [r \in R |-> <<>>]
  /\ logIdx = [r \in R |-> 0]
  /\ raised = [r \in R |-> NULL]
  /\ response = [r \in R |-> 0]

Init == InitOver(Requests)

\* ------------------------------------------------- POST /api/tasks/execute

\* The schema without .min(1) on serverIds.
ValidateAnyLength(b) ==
  /\ b.command # ""
  /\ \/ b.maxConcurrent = <<>>
     \/ (b.maxConcurrent[1] >= MinMaxConcurrent /\ b.maxConcurrent[1] <= MaxConcurrentCap)

\* The schema without .max(20) on options.maxConcurrent.
ValidateNoCap(b) ==
  /\ b.command # ""
  /\ Len(b.serverIds) >= 1
  /\ \/ b.maxConcurrent = <<>>
     \/ b.maxConcurrent[1] >= MinMaxConcurrent

\* executeTaskSchema.validate: TRUE when Joi reports no error.
Validate(b) ==
  /\ b.command # ""
  /\ Len(b.serverIds) >= 1
  /\ \/ b.maxConcurrent = <<>>
     \/ (b.maxConcurrent[1] >= MinMaxConcurrent /\ b.maxConcurrent[1] <= MaxConcurrentCap)

\* Suspend request r at the await named label.
Goto(r, label) ==
  /\ pc' = [pc EXCEPT ![r] = label]
  /\ ret' = [ret EXCEPT ![r] = Pending]

\* The route handler answers and the request is over.
Respond(r, code) ==
  /\ pc' = [pc EXCEPT ![r] = "done"]
  /\ ret' = [ret EXCEPT ![r] = NoPromise]
  /\ response' = [response EXCEPT ![r] = code]

\* The handler of router.post('/execute') for body b: validate, answer 400
\* or call executeTask, which runs up to its first await (db.createTask).
Receive(r, b) ==
  /\ body' = [body EXCEPT ![r] = b]
  /\ IF Validate(b)
       THEN Goto(r, "createTask") /\ UNCHANGED response
       ELSE Respond(r, 400)
  /\ UNCHANGED <<dbVars, runningTasks, events, sessions, taskId, validServers,
                 upd, bulk, results, logIdx, raised>>

\* router.post('/execute'): request r arrives with any body within the bounds.
Submit(r) ==
  /\ pc[r] = "idle"
  /\ \E ids \in SeqsUpTo(ServerIdInputs, MaxTargets),
        c \in CommandInputs, k \in MaxConcurrentInputs :
       Receive(r, [serverIds |-> ids, command |-> c, maxConcurrent |-> k])

\* ------------------------------------------------------------- Database

\* Database.createTask: INSERT INTO tasks; status defaults to 'pending',
\* results and completed_at to NULL; resolves with the new row's id.
\* The results column is <<>> for NULL and <<value>> for the JSON of value.
DbCreateTask(r) ==
  /\ pc[r] = "createTask" /\ ret[r].st = "pending"
  /\ \/ /\ tasks' = Append(tasks,
                      [command |-> body[r].command,
                       server_ids |-> body[r].serverIds,
                       status |-> "pending",
                       results |-> <<>>,
                       completed_at |-> 0])
        /\ ret' = [ret EXCEPT ![r] = Resolved(Len(tasks) + 1)]
     \/ /\ ret' = [ret EXCEPT ![r] = Rejected(DbError)]
        /\ UNCHANGED tasks
  /\ UNCHANGED <<servers, logs, runningTasks, events, sessions, pc, localVars, response>>

\* Database.getServerById for every id of serverIds, under Promise.all: each
\* resolves with the row or undefined; one failing statement rejects the lot.
\* A query's answer is <<row>>, or <<>> for undefined.
GetServerById(id) == IF id \in DOMAIN servers THEN <<servers[id]>> ELSE <<>>

DbGetServers(r) ==
  /\ pc[r] = "getServers" /\ ret[r].st = "pending"
  /\ \/ ret' = [ret EXCEPT ![r] =
                  Resolved([j \in 1..Len(body[r].serverIds) |->
                              GetServerById(body[r].serverIds[j])])]
     \/ ret' = [ret EXCEPT ![r] = Rejected(DbError)]
  /\ UNCHANGED <<dbVars, runningTasks, events, sessions, pc, localVars, response>>

\* Database.updateTaskStatus: UPDATE tasks SET status, results,
\* completed_at = CURRENT_TIMESTAMP.  completed_at counts the writes.
DbUpdateTaskStatus(r) ==
  /\ pc[r] \in {"updateRunning", "updateFinal", "updateFailed"}
  /\ ret[r].st = "pending"
  /\ \/ /\ tasks' = [tasks EXCEPT ![taskId[r]] =
                       [@ EXCEPT !.status = upd[r].status,
                                 !.results = upd[r].results,
                                 !.completed_at = @ + 1]]
        /\ ret' = [ret EXCEPT ![r] = Resolved(NULL)]
     \/ /\ ret' = [ret EXCEPT ![r] = Rejected(DbError)]
        /\ UNCHANGED tasks
  /\ UNCHANGED <<servers, logs, runningTasks, events, sessions, pc, localVars, response>>

\* Database.addLog: INSERT INTO logs for the result the loop is at.
DbAddLog(r) ==
  /\ pc[r] = "addLog" /\ ret[r].st = "pending"
  /\ \/ /\ logs' = Append(logs, [task_id |-> taskId[r],
                                 server_id |-> results[r][logIdx[r]].server,
                                 error |-> results[r][logIdx[r]].stderr])
        /\ ret' = [ret EXCEPT ![r] = Resolved(NULL)]
     \/ /\ ret' = [ret EXCEPT ![r] = Rejected(DbError)]
        /\ UNCHANGED logs
  /\ UNCHANGED <<servers, tasks, runningTasks, events, sessions, pc, localVars, response>>

\* Database.updateServerStatus: UPDATE servers SET status WHERE id.
DbUpdateServerStatus(r) ==
  /\ pc[r] = "updateServer" /\ ret[r].st = "pending"
  /\ LET res == results[r][logIdx[r]]
         st == IF res.success THEN "online" ELSE "error" IN
     \/ /\ servers' = [servers EXCEPT ![res.server] = [@ EXCEPT !.status = st]]
        /\ ret' = [ret EXCEPT ![r] = Resolved(NULL)]
     \/ /\ ret' = [ret EXCEPT ![r] = Rejected(DbError)]
        /\ UNCHANGED servers
  /\ UNCHANGED <<tasks, logs, runningTasks, events, sessions, pc, localVars, response>>

\* ------------------------------------------------------------ SSHManager

\* The catch block of executeCommand: the result of a call that threw.
FailedResult(server, msg) ==
  [success |-> FALSE, stderr |-> msg, code |-> AuthFailCode,
   server |-> server.id, error |-> msg]

\* The try block's return of executeCommand: the remote command ended with code.
CommandResult(server, code) ==
  [success |-> (code = 0), stderr |-> "", code |-> code,
   server |-> server.id, error |-> NULL]

\* createConnection testing server.password before the key file.
AuthMethodPasswordFirst(server) ==
  IF server.password THEN "password"
  ELSE IF server.private_key_path /\ server.key_file THEN "privateKey"
  ELSE "none"

\* createConnection up to ssh.connect: which credential the config carries.
AuthMethod(server) ==
  IF server.private_key_path /\ server.key_file THEN "privateKey"
  ELSE IF server.password THEN "password"
  ELSE "none"

\* createConnection is called outside executeCommand's try block: the throw
\* for a server without credential leaves the call rejected.
StartExecThrows(server) ==
  IF AuthMethod(server) = "none"
    THEN [server |-> server, auth |-> "none", st |-> "rejected", result |-> NULL]
    ELSE [server |-> server, auth |-> AuthMethod(server), st |-> "connecting",
          result |-> NULL]

\* executeCommand up to its first await: createConnection throws when the
\* server has no credential and the catch block returns at once, otherwise
\* ssh.connect is pending with the credential createConnection chose.
StartExec(server) ==
  IF AuthMethod(server) = "none"
    THEN [server |-> server, auth |-> "none", st |-> "done",
          result |-> FailedResult(server, NoAuthError)]
    ELSE [server |-> server, auth |-> AuthMethod(server), st |-> "connecting",
          result |-> NULL]

\* The promise of one executeCommand call resolves with result.
Settled(member, result) ==
  [server |-> member.server, auth |-> member.auth, st |-> "done", result |-> result]

Min(a, b) == IF a < b THEN a ELSE b

\* slice(i, i + maxConcurrent - 1): the batch loses its last host.
SliceShort(arr, from, to) == SubSeq(arr, from + 1, Min(to - 1, Len(arr)))

\* slice(i, i + maxConcurrent + 1): the batch takes one host too many.
SliceLong(arr, from, to) == SubSeq(arr, from + 1, Min(to + 1, Len(arr)))

Max(a, b) == IF a > b THEN a ELSE b

\* How Array.prototype.slice reads an index: a negative one counts from the
\* end of the array, and the outcome is kept within 0..len.
RelativeIndex(n, len) == IF n < 0 THEN Max(len + n, 0) ELSE Min(n, len)

\* Array.prototype.slice(from, to): the elements from the relative index
\* of from up to, not including, that of to; none when the latter is not past
\* the former.
Slice(arr, from, to) ==
  SubSeq(arr, RelativeIndex(from, Len(arr)) + 1, RelativeIndex(to, Len(arr)))

\* A negative i is reached only with a negative maxConcurrent, and then the
\* loop treats every negative i alike: slice(i, i + maxConcurrent) is
\* empty and i < servers.length holds.  The indexes below IndexFloor are
\* kept as IndexFloor, and the count of delays stops at MaxDelays, which no
\* call with a positive maxConcurrent reaches.
IndexFloor == 0 - MaxTargets
MaxDelays == MaxTargets

\* i += maxConcurrent
Advance(i, k) == Max(i + k, IndexFloor)

\* The loop gives up once a collected result is a failure.
BulkLoopStopOnFailure(b, hosts) ==
  IF b.i < Len(hosts) /\ \A q \in 1..Len(b.results) : b.results[q].success
    THEN LET batch == Slice(hosts, b.i, b.i + b.k) IN
         [b EXCEPT !.phase = "running",
                   !.batch = [j \in 1..Len(batch) |-> StartExec(batch[j])]]
    ELSE [b EXCEPT !.phase = "returned", !.batch = <<>>]

\* The head of executeBulkCommand's for loop at index b.i: start the next
\* batch, or leave the loop and return results.
BulkLoop(b, hosts) ==
  IF b.i < Len(hosts)
    THEN LET batch == Slice(hosts, b.i, b.i + b.k) IN
         [b EXCEPT !.phase = "running",
                   !.batch = [j \in 1..Len(batch) |-> StartExec(batch[j])]]
    ELSE [b EXCEPT !.phase = "returned", !.batch = <<>>]

\* The option is ignored: every call runs batches of 5.
MaxConcurrentOfDefault(b) == DefaultMaxConcurrent

\* options.maxConcurrent || 5
MaxConcurrentOf(b) ==
  IF b.maxConcurrent = <<>> \/ b.maxConcurrent[1] = 0
    THEN DefaultMaxConcurrent ELSE b.maxConcurrent[1]

\* ssh.connect settles for batch member j: the session is open and
\* ssh.execCommand is pending, or connect rejected and the catch block returns.
ConnectDone(r, j) ==
  /\ pc[r] = "bulk" /\ bulk[r].phase = "running"
  /\ j \in 1..Len(bulk[r].batch)
  /\ bulk[r].batch[j].st = "connecting"
  /\ \/ /\ bulk' = [bulk EXCEPT ![r].batch[j].st = "executing"]
        /\ sessions' = sessions + 1
     \/ /\ bulk' = [bulk EXCEPT ![r].batch[j] =
                      Settled(@, FailedResult(@.server, TransportError))]
        /\ UNCHANGED sessions
  /\ UNCHANGED <<dbVars, runningTasks, events, pc, ret, body, taskId, validServers,
                 upd, results, logIdx, raised, response>>

\* executeCommand without its finally block: the session is disposed of
\* only when ssh.execCommand resolved.
ExecDoneNoFinally(r, j) ==
  /\ pc[r] = "bulk" /\ bulk[r].phase = "running"
  /\ j \in 1..Len(bulk[r].batch)
  /\ bulk[r].batch[j].st = "executing"
  /\ \/ /\ \E code \in ExitCodes :
             bulk' = [bulk EXCEPT ![r].batch[j] =
                        Settled(@, CommandResult(@.server, code))]
        /\ sessions' = sessions - 1
     \/ /\ bulk' = [bulk EXCEPT ![r].batch[j] =
                      Settled(@, FailedResult(@.server, TransportError))]
        /\ UNCHANGED sessions
  /\ UNCHANGED <<dbVars, runningTasks, events, pc, ret, body, taskId, validServers,
                 upd, results, logIdx, raised, response>>

\* ssh.execCommand settles for batch member j: it resolves with an exit code
\* or rejects; the finally block disposes of the session either way.
ExecDone(r, j) ==
  /\ pc[r] = "bulk" /\ bulk[r].phase = "running"
  /\ j \in 1..Len(bulk[r].batch)
  /\ bulk[r].batch[j].st = "executing"
  /\ \/ \E code \in ExitCodes :
          bulk' = [bulk EXCEPT ![r].batch[j] =
                     Settled(@, CommandResult(@.server, code))]
     \/ bulk' = [bulk EXCEPT ![r].batch[j] =
                   Settled(@, FailedResult(@.server, TransportError))]
  /\ sessions' = sessions - 1
  /\ UNCHANGED <<dbVars, runningTasks, events, pc, ret, body, taskId, validServers,
                 upd, results, logIdx, raised, response>>

\* results.unshift(...batchResults): a later batch goes in front.
PushResultsFront(res, batchResults) == batchResults \o res

\* The results are collected as the calls settle: a call that ended without
\* an await, for want of a credential, comes before the others of its batch.
PushResultsAsSettled(res, batchResults) ==
  res \o SelectSeq(batchResults, LAMBDA x : x.error = NoAuthError)
      \o SelectSeq(batchResults, LAMBDA x : x.error # NoAuthError)

\* results.push(...batchResults)
PushResults(res, batchResults) == res \o batchResults

\* The loop body without its if: the delay follows every batch.
BatchDoneAlwaysDelay(r) ==
  /\ pc[r] = "bulk" /\ bulk[r].phase = "running"
  /\ \A j \in 1..Len(bulk[r].batch) : bulk[r].batch[j].st = "done"
  /\ LET b == bulk[r] IN
     bulk' = [bulk EXCEPT ![r] =
                [b EXCEPT !.results =
                     PushResults(@, [j \in 1..Len(b.batch) |-> b.batch[j].result]),
                          !.batch = <<>>,
                          !.phase = "delay",
                          !.delays = @ + 1]]
  /\ UNCHANGED <<dbVars, runningTasks, events, sessions, pc, ret, body, taskId,
                 validServers, upd, results, logIdx, raised, response>>

\* Promise.all(batchPromises) resolves: push the batch's results in batch
\* order, then wait 100 ms when hosts remain, else advance i and leave the loop.
BatchDone(r) ==
  /\ pc[r] = "bulk" /\ bulk[r].phase = "running"
  /\ \A j \in 1..Len(bulk[r].batch) : bulk[r].batch[j].st = "done"
  /\ LET b == bulk[r]
         pushed == [b EXCEPT !.results =
                      PushResults(@, [j \in 1..Len(b.batch) |-> b.batch[j].result]),
                             !.batch = <<>>] IN
     bulk' = [bulk EXCEPT ![r] =
                IF b.i + b.k < Len(validServers[r])
                  THEN [pushed EXCEPT !.phase = "delay",
                                      !.delays = Min(@ + 1, MaxDelays)]
                  ELSE BulkLoop([pushed EXCEPT !.i = Advance(@, b.k)], validServers[r])]
  /\ UNCHANGED <<dbVars, runningTasks, events, sessions, pc, ret, body, taskId,
                 validServers, upd, results, logIdx, raised, response>>

\* The 100 ms timer between two batches fires: i += maxConcurrent, next batch.
DelayDone(r) ==
  /\ pc[r] = "bulk" /\ bulk[r].phase = "delay"
  /\ bulk' = [bulk EXCEPT ![r] =
                BulkLoop([@ EXCEPT !.i = Advance(@, bulk[r].k)], validServers[r])]
  /\ UNCHANGED <<dbVars, runningTasks, events, sessions, pc, ret, body, taskId,
                 validServers, upd, results, logIdx, raised, response>>

\* ----------------------------------------------------------- TaskManager

RECURSIVE GCD(_, _)
GCD(a, b) == IF b = 0 THEN a ELSE GCD(b, a % b)

\* (successCount / totalCount) * 100 as an exact fraction in lowest terms;
\* 0 / 0 is NaN.
SuccessRate(successCount, totalCount) ==
  IF totalCount = 0
    THEN [num |-> 0, den |-> 0]
    ELSE LET g == GCD(successCount * 100, totalCount) IN
         [num |-> (successCount * 100) \div g, den |-> totalCount \div g]

\* successRate > 0 ? 'completed' : 'partial'
FinalStatusAnySuccess(successRate) ==
  IF successRate.num > 0 THEN "completed" ELSE "partial"

\* successRate === 100 ? 'completed' : 'partial'
FinalStatus(successRate) ==
  IF successRate.num = 100 /\ successRate.den = 1 THEN "completed" ELSE "partial"

SuccessCount(res) == Cardinality({j \in 1..Len(res) : res[j].success})

\* The second argument of the final updateTaskStatus call.
Aggregate(res) ==
  LET sc == SuccessCount(res)
      tc == Len(res) IN
  [results |-> res, successRate |-> SuccessRate(sc, tc),
   successCount |-> sc, totalCount |-> tc]

\* One id without a row empties the whole list.
FilterValidAllOrNothing(answers) ==
  IF \A j \in 1..Len(answers) : Len(answers[j]) = 1
    THEN [j \in 1..Len(answers) |-> answers[j][1]]
    ELSE <<>>

\* servers.filter(server => server !== undefined)
FilterValid(answers) ==
  LET found == SelectSeq(answers, LAMBDA a : Len(a) = 1) IN
  [j \in 1..Len(found) |-> found[j][1]]

\* The entry is left in the Map.
UnregisterNever(r) == UNCHANGED runningTasks

\* this.runningTasks.delete(taskId)
Unregister(r) == runningTasks' = runningTasks \ {taskId[r]}

\* TaskManager.getRunningTasks, as GET /api/tasks/status/running answers it:
\* one entry for every key of the Map.
GetRunningTasks == {[taskId |-> t, status |-> "running"] : t \in runningTasks}

\* A JavaScript value used as a task id: the number n, as this.lastID gives
\* it to createTask's caller, or the string spelling n in decimal, as
\* req.params.id holds it.
NumberKey(n) == [type |-> "number", digits |-> n]
StringKey(n) == [type |-> "string", digits |-> n]

\* this.runningTasks.has(key): Map compares keys by SameValueZero, which
\* never equates a string with a number; every key set is a number.
RunningTasksHas(key) == key.type = "number" /\ key.digits \in runningTasks

\* The status is overridden with 'running' while the id is registered.
GetTaskStatusLive(key) ==
  IF key.digits \in 1..Len(tasks)
    THEN <<[status |-> IF key.digits \in runningTasks
                         THEN "running" ELSE tasks[key.digits].status,
            results |-> tasks[key.digits].results,
            serverIds |-> tasks[key.digits].server_ids,
            isRunning |-> RunningTasksHas(key)]>>
    ELSE <<>>

\* TaskManager.getTaskStatus(key): SELECT * FROM tasks WHERE id = key, where
\* SQLite converts a text operand to the INTEGER column's affinity; <<>> for
\* null, else the row with results and server_ids decoded and isRunning
\* read from the Map.
GetTaskStatus(key) ==
  IF key.digits \in 1..Len(tasks)
    THEN <<[status |-> tasks[key.digits].status,
            results |-> tasks[key.digits].results,
            serverIds |-> tasks[key.digits].server_ids,
            isRunning |-> RunningTasksHas(key)]>>
    ELSE <<>>

\* router.get('/:id') for the path /api/tasks/n: what the response carries
\* as data, <<>> when it answers 404.
GetTaskById(n) == GetTaskStatus(StringKey(n))

\* The catch block marks the task 'partial' instead of 'failed'.
CatchAsPartial(r, msg) ==
  /\ Goto(r, "updateFailed")
  /\ upd' = [upd EXCEPT ![r] = [status |-> "partial", results |-> <<[error |-> msg]>>]]
  /\ raised' = [raised EXCEPT ![r] = msg]

\* The catch block of executeTask up to its await: updateTaskStatus(taskId,
\* 'failed', { error: error.message }) is pending.
Catch(r, msg) ==
  /\ Goto(r, "updateFailed")
  /\ upd' = [upd EXCEPT ![r] = [status |-> "failed", results |-> <<[error |-> msg]>>]]
  /\ raised' = [raised EXCEPT ![r] = msg]

\* The for..of loop over results at position idx: addLog is pending, or the
\* loop is over and the final updateTaskStatus is pending.
LogLoop(r, res, idx) ==
  /\ logIdx' = [logIdx EXCEPT ![r] = idx]
  /\ IF idx <= Len(res)
       THEN Goto(r, "addLog") /\ UNCHANGED upd
       ELSE LET agg == Aggregate(res) IN
            /\ Goto(r, "updateFinal")
            /\ upd' = [upd EXCEPT ![r] =
                         [status |-> FinalStatus(agg.successRate), results |-> <<agg>>]]

\* AfterCreateTask without its io.emit('taskStarted', ...).
AfterCreateTaskSilent(r) ==
  /\ pc[r] = "createTask" /\ ret[r].st \in {"ok", "err"}
  /\ IF ret[r].st = "err"
       THEN /\ Respond(r, 500)
            /\ UNCHANGED <<runningTasks, events, taskId>>
       ELSE /\ taskId' = [taskId EXCEPT ![r] = ret[r].val]
            /\ runningTasks' = runningTasks \cup {ret[r].val}
            /\ UNCHANGED events
            /\ Goto(r, "getServers")
            /\ UNCHANGED response
  /\ UNCHANGED <<dbVars, sessions, body, validServers, upd, bulk, results,
                 logIdx, raised>>

\* taskStarted announces the number of serverIds that name a row of the
\* servers table instead of serverIds.length.
AfterCreateTaskCountsResolved(r) ==
  /\ pc[r] = "createTask" /\ ret[r].st \in {"ok", "err"}
  /\ IF ret[r].st = "err"
       THEN /\ Respond(r, 500)
            /\ UNCHANGED <<runningTasks, events, taskId>>
       ELSE /\ taskId' = [taskId EXCEPT ![r] = ret[r].val]
            /\ runningTasks' = runningTasks \cup {ret[r].val}
            /\ events' = Append(events,
                           [type |-> "taskStarted", taskId |-> ret[r].val,
                            serverCount |->
                              Len(SelectSeq(body[r].serverIds,
                                            LAMBDA id : id \in DOMAIN servers))])
            /\ Goto(r, "getServers")
            /\ UNCHANGED response
  /\ UNCHANGED <<dbVars, sessions, body, validServers, upd, bulk, results,
                 logIdx, raised>>

\* createTask settled.  Rejected: executeTask rejects and the route answers
\* 500.  Resolved: register the task, emit taskStarted, query the servers.
AfterCreateTask(r) ==
  /\ pc[r] = "createTask" /\ ret[r].st \in {"ok", "err"}
  /\ IF ret[r].st = "err"
       THEN /\ Respond(r, 500)
            /\ UNCHANGED <<runningTasks, events, taskId>>
       ELSE /\ taskId' = [taskId EXCEPT ![r] = ret[r].val]
            /\ runningTasks' = runningTasks \cup {ret[r].val}
            /\ events' = Append(events,
                           [type |-> "taskStarted", taskId |-> ret[r].val,
                            serverCount |-> Len(body[r].serverIds)])
            /\ Goto(r, "getServers")
            /\ UNCHANGED response
  /\ UNCHANGED <<dbVars, sessions, body, validServers, upd, bulk, results,
                 logIdx, raised>>

\* The server queries settled: keep the rows found; with none, throw; else
\* updateTaskStatus(taskId, 'running') is pending.
AfterGetServers(r) ==
  /\ pc[r] = "getServers" /\ ret[r].st \in {"ok", "err"}
  /\ IF ret[r].st = "err"
       THEN Catch(r, ret[r].val) /\ UNCHANGED validServers
       ELSE LET valid == FilterValid(ret[r].val) IN
            /\ validServers' = [validServers EXCEPT ![r] = valid]
            /\ IF Len(valid) = 0
                 THEN Catch(r, NoServersError)
                 ELSE /\ Goto(r, "updateRunning")
                      /\ upd' = [upd EXCEPT ![r] = [status |-> "running", results |-> <<>>]]
                      /\ UNCHANGED raised
  /\ UNCHANGED <<dbVars, runningTasks, events, sessions, body, taskId, bulk,
                 results, logIdx, response>>

\* updateTaskStatus('running') is not awaited inside the try block: its
\* rejection goes unnoticed and the dispatcher is invoked all the same.
AfterUpdateRunningUnchecked(r) ==
  /\ pc[r] = "updateRunning" /\ ret[r].st \in {"ok", "err"}
  /\ Goto(r, "bulk")
  /\ bulk' = [bulk EXCEPT ![r] =
                BulkLoop([NoBulk EXCEPT !.k = MaxConcurrentOf(body[r])],
                         validServers[r])]
  /\ UNCHANGED <<upd, raised>>
  /\ UNCHANGED <<dbVars, runningTasks, events, sessions, body, taskId,
                 validServers, results, logIdx, response>>

\* updateTaskStatus('running') settled: call executeBulkCommand, which starts
\* its first batch.
AfterUpdateRunning(r) ==
  /\ pc[r] = "updateRunning" /\ ret[r].st \in {"ok", "err"}
  /\ IF ret[r].st = "err"
       THEN Catch(r, ret[r].val) /\ UNCHANGED bulk
       ELSE /\ Goto(r, "bulk")
            /\ bulk' = [bulk EXCEPT ![r] =
                          BulkLoop([NoBulk EXCEPT !.k = MaxConcurrentOf(body[r])],
                                   validServers[r])]
            /\ UNCHANGED <<upd, raised>>
  /\ UNCHANGED <<dbVars, runningTasks, events, sessions, body, taskId,
                 validServers, results, logIdx, response>>

\* executeBulkCommand returned: enter the loop over results.
AfterBulk(r) ==
  /\ pc[r] = "bulk" /\ bulk[r].phase = "returned"
  /\ results' = [results EXCEPT ![r] = bulk[r].results]
  /\ LogLoop(r, bulk[r].results, 1)
  /\ UNCHANGED <<dbVars, runningTasks, events, sessions, body, taskId,
                 validServers, bulk, raised, response>>

\* addLog settled: updateServerStatus is pending.
AfterAddLog(r) ==
  /\ pc[r] = "addLog" /\ ret[r].st \in {"ok", "err"}
  /\ IF ret[r].st = "err"
       THEN Catch(r, ret[r].val)
       ELSE Goto(r, "updateServer") /\ UNCHANGED <<upd, raised>>
  /\ UNCHANGED <<dbVars, runningTasks, events, sessions, body, taskId,
                 validServers, bulk, results, logIdx, response>>

\* updateServerStatus settled: emit taskProgress and go on with the loop.
AfterUpdateServerStatus(r) ==
  /\ pc[r] = "updateServer" /\ ret[r].st \in {"ok", "err"}
  /\ IF ret[r].st = "err"
       THEN Catch(r, ret[r].val) /\ UNCHANGED <<events, logIdx>>
       ELSE /\ events' = Append(events,
                           [type |-> "taskProgress", taskId |-> taskId[r],
                            serverId |-> results[r][logIdx[r]].server,
                            success |-> results[r][logIdx[r]].success])
            /\ LogLoop(r, results[r], logIdx[r] + 1)
            /\ UNCHANGED raised
  /\ UNCHANGED <<dbVars, runningTasks, sessions, body, taskId, validServers,
                 bulk, results, response>>

\* io.emit('taskCompleted', ...) throws inside the try block: the catch
\* block runs after the terminal update was applied.
AfterUpdateFinalEmitThrows(r) ==
  /\ pc[r] = "updateFinal" /\ ret[r].st \in {"ok", "err"}
  /\ IF ret[r].st = "err"
       THEN Catch(r, ret[r].val) /\ UNCHANGED <<runningTasks, events, response>>
       ELSE /\ Unregister(r)
            /\ Catch(r, TransportError)
            /\ UNCHANGED <<events, response>>
  /\ UNCHANGED <<dbVars, sessions, body, taskId, validServers, bulk, results, logIdx>>

\* The final updateTaskStatus settled: unregister, emit taskCompleted and
\* return; the route answers 202 with the task id.
AfterUpdateFinal(r) ==
  /\ pc[r] = "updateFinal" /\ ret[r].st \in {"ok", "err"}
  /\ IF ret[r].st = "err"
       THEN Catch(r, ret[r].val) /\ UNCHANGED <<runningTasks, events, response>>
       ELSE /\ Unregister(r)
            /\ LET agg == Aggregate(results[r]) IN
               events' = Append(events,
                           [type |-> "taskCompleted", taskId |-> taskId[r],
                            status |-> FinalStatus(agg.successRate),
                            successRate |-> agg.successRate,
                            successCount |-> agg.successCount,
                            totalCount |-> agg.totalCount])
            /\ Respond(r, 202)
            /\ UNCHANGED <<upd, raised>>
  /\ UNCHANGED <<dbVars, sessions, body, taskId, validServers, bulk, results, logIdx>>

\* updateTaskStatus('failed') of the catch block settled.  Rejected:
\* executeTask rejects and the route answers 500.  Resolved: unregister, emit
\* taskFailed and return; the route answers 202 with the task id.
AfterUpdateFailed(r) ==
  /\ pc[r] = "updateFailed" /\ ret[r].st \in {"ok", "err"}
  /\ IF ret[r].st = "err"
       THEN Respond(r, 500) /\ UNCHANGED <<runningTasks, events>>
       ELSE /\ Unregister(r)
            /\ events' = Append(events,
                           [type |-> "taskFailed", taskId |-> taskId[r],
                            error |-> raised[r]])
            /\ Respond(r, 202)
  /\ UNCHANGED <<dbVars, sessions, localVars>>

\* ---------------------------------------------------------- specification

Next ==
  \E r \in Requests :
    \/ Submit(r)
    \/ DbCreateTask(r)
    \/ AfterCreateTask(r)
    \/ DbGetServers(r)
    \/ AfterGetServers(r)
    \/ DbUpdateTaskStatus(r)
    \/ AfterUpdateRunning(r)
    \/ \E j \in 1..DefaultMaxConcurrent : ConnectDone(r, j)
    \/ \E j \in 1..DefaultMaxConcurrent : ExecDone(r, j)
    \/ BatchDone(r)
    \/ DelayDone(r)
    \/ AfterBulk(r)
    \/ DbAddLog(r)
    \/ AfterAddLog(r)
    \/ DbUpdateServerStatus(r)
    \/ AfterUpdateServerStatus(r)
    \/ AfterUpdateFinal(r)
    \/ AfterUpdateFailed(r)

Spec == Init /\ [][Next]_vars

\* The event loop runs every continuation whose promise has settled, and
\* every database or SSH call settles: a step that can be taken is taken.
FairSpec == Spec /\ WF_vars(Next)

\* ------------------------------------------------- two tasks at a time

\* Two requests whose executeTask calls interleave at their awaits.
TwoRequests == {1, 2}

\* What the two clients send: the first a command for host 1, the second a
\* command for hosts 2 and 3, one at a time.
TwoBodies(r) ==
  IF r = 1
    THEN {[serverIds |-> <<1>>, command |-> "cmd", maxConcurrent |-> <<>>]}
    ELSE {[serverIds |-> <<2, 3>>, command |-> "cmd", maxConcurrent |-> <<MinMaxConcurrent>>]}

InitTwo == InitOver(TwoRequests)

\* router.post('/execute'): request r arrives with one of its client's bodies.
SubmitTwo(r) == pc[r] = "idle" /\ \E b \in TwoBodies(r) : Receive(r, b)

NextTwo ==
  \E r \in TwoRequests :
    \/ SubmitTwo(r)
    \/ DbCreateTask(r)
    \/ AfterCreateTask(r)
    \/ DbGetServers(r)
    \/ AfterGetServers(r)
    \/ DbUpdateTaskStatus(r)
    \/ AfterUpdateRunning(r)
    \/ \E j \in 1..DefaultMaxConcurrent : ConnectDone(r, j)
    \/ \E j \in 1..DefaultMaxConcurrent : ExecDone(r, j)
    \/ BatchDone(r)
    \/ DelayDone(r)
    \/ AfterBulk(r)
    \/ DbAddLog(r)
    \/ AfterAddLog(r)
    \/ DbUpdateServerStatus(r)
    \/ AfterUpdateServerStatus(r)
    \/ AfterUpdateFinal(r)
    \/ AfterUpdateFailed(r)

SpecTwo == InitTwo /\ [][NextTwo]_vars

\* ------------------------------------ executeBulkCommand called directly

\* The servers argument: any list of rows of the servers table.
HostLists == SeqsUpTo({InitialServers[id] : id \in DOMAIN InitialServers}, MaxTargets)

\* The options argument: maxConcurrent absent or any integer near zero.
OptionInputs == {<<>>} \cup {<<k>> : k \in (0 - MaxK)..MaxK}

\* A caller invokes ssh.executeBulkCommand(hosts, command, options) for
\* request r: the call runs up to the Promise.all of its first batch, or
\* returns at once for an empty list.
CallBulk(r) ==
  /\ pc[r] = "idle"
  /\ \E hosts \in HostLists, k \in OptionInputs :
       /\ validServers' = [validServers EXCEPT ![r] = hosts]
       /\ body' = [body EXCEPT ![r] = [maxConcurrent |-> k]]
       /\ bulk' = [bulk EXCEPT ![r] =
                     BulkLoop([NoBulk EXCEPT !.k = MaxConcurrentOf([maxConcurrent |-> k])],
                              hosts)]
  /\ Goto(r, "bulk")
  /\ UNCHANGED <<dbVars, runningTasks, events, sessions, taskId, upd, results,
                 logIdx, raised, response>>

\* return results: the caller has the list.
ReturnBulk(r) ==
  /\ pc[r] = "bulk" /\ bulk[r].phase = "returned"
  /\ results' = [results EXCEPT ![r] = bulk[r].results]
  /\ pc' = [pc EXCEPT ![r] = "done"]
  /\ ret' = [ret EXCEPT ![r] = Resolved(NULL)]
  /\ UNCHANGED <<dbVars, runningTasks, events, sessions, body, taskId,
                 validServers, upd, bulk, logIdx, raised, response>>

NextBulk ==
  \E r \in Requests :
    \/ CallBulk(r)
    \/ \E j \in 1..DefaultMaxConcurrent : ConnectDone(r, j)
    \/ \E j \in 1..DefaultMaxConcurrent : ExecDone(r, j)
    \/ BatchDone(r)
    \/ DelayDone(r)
    \/ ReturnBulk(r)

\* Every connect, every execCommand and every timer settles, and the event
\* loop runs the continuation of whatever settled.
SpecBulk == Init /\ [][NextBulk]_vars /\ WF_vars(NextBulk)

\* ------------------------------------------- POST and PUT /api/servers

\* What executeTask and the dispatcher own: the server routes leave it alone.
taskVars == <<tasks, logs, runningTasks, events, sessions, taskId, validServers,
              upd, bulk, results, logIdx, raised>>

\* privateKeyPath and password of a request body: <<>> when the key is not
\* in the body, else <<text>>; "/key" names a file that exists, "/missing"
\* does not.
PathInputs == {<<>>, <<"">>, <<"/missing">>, <<"/key">>}
PasswordInputs == {<<>>, <<"">>, <<"secret">>}

\* serverSchema.validate: both keys are optional strings that may be empty,
\* and .or('privateKeyPath', 'password') wants one of the keys present.
ValidateServer(b) == Len(b.privateKeyPath) = 1 \/ Len(b.password) = 1

\* value.privateKeyPath || null, value.password || null: the column is set
\* when the key is present with a non-empty string.
Truthy(opt) == Len(opt) = 1 /\ opt[1] # ""

\* The columns a validated body gives a row.
AuthColumns(b) ==
  [private_key_path |-> Truthy(b.privateKeyPath),
   key_file |-> (b.privateKeyPath = <<"/key">>),
   password |-> Truthy(b.password)]

\* router.post('/'): validate, answer 400 or await database.addServer.
PostServer(r) ==
  /\ pc[r] = "idle"
  /\ \E p \in PathInputs, w \in PasswordInputs :
       LET b == [id |-> 0, privateKeyPath |-> p, password |-> w] IN
       /\ body' = [body EXCEPT ![r] = b]
       /\ IF ValidateServer(b)
            THEN Goto(r, "addServer") /\ UNCHANGED response
            ELSE Respond(r, 400)
  /\ UNCHANGED <<servers, taskVars>>

\* Database.addServer: INSERT INTO servers; status defaults to 'unknown'.
DbAddServer(r) ==
  /\ pc[r] = "addServer" /\ ret[r].st = "pending"
  /\ \/ /\ servers' = Append(servers,
                        [id |-> Len(servers) + 1,
                         private_key_path |-> AuthColumns(body[r]).private_key_path,
                         key_file |-> AuthColumns(body[r]).key_file,
                         password |-> AuthColumns(body[r]).password,
                         status |-> "unknown"])
        /\ ret' = [ret EXCEPT ![r] = Resolved(Len(servers) + 1)]
     \/ /\ ret' = [ret EXCEPT ![r] = Rejected(DbError)]
        /\ UNCHANGED servers
  /\ UNCHANGED <<pc, body, response, taskVars>>

\* addServer settled: answer 201, or 409 / 500 (one code here) when it rejected.
AfterAddServer(r) ==
  /\ pc[r] = "addServer" /\ ret[r].st \in {"ok", "err"}
  /\ Respond(r, IF ret[r].st = "ok" THEN 201 ELSE 500)
  /\ UNCHANGED <<servers, body, taskVars>>

\* router.put('/:id'): validate, answer 400 or await database.getServerById.
PutServer(r) ==
  /\ pc[r] = "idle"
  /\ \E id \in ServerIdInputs, p \in PathInputs, w \in PasswordInputs :
       LET b == [id |-> id, privateKeyPath |-> p, password |-> w] IN
       /\ body' = [body EXCEPT ![r] = b]
       /\ IF ValidateServer(b)
            THEN Goto(r, "findServer") /\ UNCHANGED response
            ELSE Respond(r, 400)
  /\ UNCHANGED <<servers, taskVars>>

\* Database.getServerById(id) of the PUT route.
DbFindServer(r) ==
  /\ pc[r] = "findServer" /\ ret[r].st = "pending"
  /\ \/ ret' = [ret EXCEPT ![r] = Resolved(GetServerById(body[r].id))]
     \/ ret' = [ret EXCEPT ![r] = Rejected(DbError)]
  /\ UNCHANGED <<servers, pc, body, response, taskVars>>

\* getServerById settled: 500 when it rejected, 404 without a row, else await
\* the UPDATE.
AfterFindServer(r) ==
  /\ pc[r] = "findServer" /\ ret[r].st \in {"ok", "err"}
  /\ IF ret[r].st = "err" THEN Respond(r, 500)
     ELSE IF ret[r].val = <<>> THEN Respond(r, 404)
     ELSE Goto(r, "putServer") /\ UNCHANGED response
  /\ UNCHANGED <<servers, body, taskVars>>

\* UPDATE servers SET ..., private_key_path = ?, password = ? WHERE id = ?
DbPutServer(r) ==
  /\ pc[r] = "putServer" /\ ret[r].st = "pending"
  /\ \/ /\ servers' = [servers EXCEPT ![body[r].id] =
                         [@ EXCEPT !.private_key_path = AuthColumns(body[r]).private_key_path,
                                   !.key_file = AuthColumns(body[r]).key_file,
                                   !.password = AuthColumns(body[r]).password]]
        /\ ret' = [ret EXCEPT ![r] = Resolved(NULL)]
     \/ /\ ret' = [ret EXCEPT ![r] = Rejected(DbError)]
        /\ UNCHANGED servers
  /\ UNCHANGED <<pc, body, response, taskVars>>

\* The UPDATE settled: answer 200 or 500.
AfterPutServer(r) ==
  /\ pc[r] = "putServer" /\ ret[r].st \in {"ok", "err"}
  /\ Respond(r, IF ret[r].st = "ok" THEN 200 ELSE 500)
  /\ UNCHANGED <<servers, body, taskVars>>

\* The state after construction with an empty servers table.
InitServers ==
  /\ servers = <<>>
  /\ tasks = <<>>
  /\ logs = <<>>
  /\ runningTasks = {}
  /\ events = <<>>
  /\ sessions = 0
  /\ pc = [r \in TwoRequests |-> "idle"]
  /\ ret = [r \in TwoRequests |-> NoPromise]
  /\ body = [r \in TwoRequests |-> NULL]
  /\ taskId = [r \in TwoRequests |-> 0]
  /\ validServers = [r \in TwoRequests |-> <<>>]
  /\ upd = [r \in TwoRequests |-> NULL]
  /\ bulk = [r \in TwoRequests |-> NoBulk]
  /\ results = [r \in TwoRequests |-> <<>>]
  /\ logIdx = [r \in TwoRequests |-> 0]
  /\ raised = [r \in TwoRequests |-> NULL]
  /\ response = [r \in TwoRequests |-> 0]

NextServers ==
  \E r \in TwoRequests :
    \/ PostServer(r)
    \/ DbAddServer(r)
    \/ AfterAddServer(r)
    \/ PutServer(r)
    \/ DbFindServer(r)
    \/ AfterFindServer(r)
    \/ DbPutServer(r)
    \/ AfterPutServer(r)

SpecServers == InitServers /\ [][NextServers]_vars

\* ------------------------------------------------------------ properties

Terminal == {"completed", "partial", "failed"}

\* The results column holds an aggregate (not NULL, not an error text).
IsAggregate(col) == Len(col) = 1 /\ "totalCount" \in DOMAIN col[1]

\* The requests whose executeTask call owns task t.
OwnersOf(t) == {r \in Requests : taskId[r] = t}

\* How often id occurs among the hosts given / among the results returned.
HostCount(hosts, id) == Cardinality({p \in 1..Len(hosts) : hosts[p].id = id})
ResultCount(res, id) == Cardinality({q \in 1..Len(res) : res[q].server = id})

\* A result that reports a failed execution: the call threw or the remote
\* command ended with a non-zero code.
IsFailure(res) == res.code # 0 \/ res.error # NULL

\* C1: when executeBulkCommand returns, it returns exactly one result per
\* input host occurrence: as many results as hosts, and every host id is
\* represented exactly as often as it was given, failed hosts included.
C1_OneResultPerHost ==
  \A r \in Requests :
    bulk[r].phase = "returned" =>
      /\ Len(bulk[r].results) = Len(validServers[r])
      /\ \A id \in ServerIdInputs :
           ResultCount(bulk[r].results, id) = HostCount(validServers[r], id)

\* C1 case: three hosts, one of them twice, in two batches, one failing in transport.
C1_Witness ==
  \E r \in Requests :
    /\ bulk[r].phase = "returned"
    /\ Len(validServers[r]) = 3
    /\ bulk[r].k = 2
    /\ HostCount(validServers[r], 2) = 2
    /\ \E q \in 1..Len(bulk[r].results) : bulk[r].results[q].error = TransportError

\* C2: fault isolation.  While executeBulkCommand runs, failures among the
\* results collected so far or in the current batch leave the schedule as it
\* is: the results cover exactly the hosts before index i and the current
\* batch holds every host of its slice.  When it returns, every host has its
\* own result whatever the others did, and every failed execution is reported
\* with success = false.
C2_FaultIsolation ==
  \A r \in Requests :
    LET b == bulk[r]
        n == Len(validServers[r]) IN
    /\ b.phase = "running" =>
         /\ Len(b.results) = b.i
         /\ Len(b.batch) = Min(b.k, n - b.i)
         /\ \A j \in 1..Len(b.batch) : b.batch[j].server = validServers[r][b.i + j]
    /\ b.phase = "delay" => Len(b.results) = b.i + b.k /\ Len(b.results) < n
    /\ b.phase = "returned" =>
         \A p \in 1..n :
           /\ p <= Len(b.results)
           /\ b.results[p].server = validServers[r][p].id
    /\ \A q \in 1..Len(b.results) :
         IsFailure(b.results[q]) => ~b.results[q].success
    /\ \A j \in 1..Len(b.batch) :
         (b.batch[j].st = "done" /\ IsFailure(b.batch[j].result))
           => ~b.batch[j].result.success

\* C2 case: the first host of the first batch failed, its batch sibling and
\* the host of the next batch were executed and succeeded.
C2_Witness ==
  \E r \in Requests :
    /\ bulk[r].phase = "returned"
    /\ bulk[r].k = 2
    /\ Len(bulk[r].results) = 3
    /\ IsFailure(bulk[r].results[1])
    /\ bulk[r].results[2].success
    /\ bulk[r].results[3].success

\* C3: a task's persisted terminal state is 'completed' exactly when the
\* success rate of its persisted aggregate is 100 percent, that is when
\* successCount equals totalCount; the aggregate counts the results the
\* dispatcher returned.  A row without aggregate has no success rate.
C3_CompletedIffAllSucceeded ==
  \A t \in 1..Len(tasks) :
    LET row == tasks[t] IN
    row.status \in Terminal =>
      /\ row.status = "completed" <=>
           /\ IsAggregate(row.results)
           /\ row.results[1].successRate = [num |-> 100, den |-> 1]
      /\ IsAggregate(row.results) =>
           /\ (row.results[1].successRate = [num |-> 100, den |-> 1]
                 <=> row.results[1].successCount = row.results[1].totalCount)
           /\ \A r \in OwnersOf(t) :
                /\ row.results[1].totalCount = Len(bulk[r].results)
                /\ row.results[1].successCount = SuccessCount(bulk[r].results)

\* C3 case: a task over three hosts that all succeeded is persisted as completed.
C3_Witness ==
  \E t \in 1..Len(tasks) :
    /\ tasks[t].status = "completed"
    /\ tasks[t].results[1].totalCount = 3
    /\ tasks[t].results[1].successCount = 3

\* C4: a task's persisted terminal state is 'partial' exactly when its
\* success rate is strictly between 0 and 100 percent
\* (0 < successCount < totalCount).
C4_PartialIffStrictlyBetween ==
  \A t \in 1..Len(tasks) :
    LET row == tasks[t] IN
    row.status \in Terminal =>
      (row.status = "partial" <=>
         /\ IsAggregate(row.results)
         /\ 0 < row.results[1].successCount
         /\ row.results[1].successCount < row.results[1].totalCount)

\* C5 as stated: a task id is in runningTasks exactly when the task's
\* persisted state is 'running'.
C5_RegistryIffRunning ==
  \A t \in 1..Len(tasks) : t \in runningTasks <=> tasks[t].status = "running"

\* C5 amended: a task whose persisted state is 'running' has its id in
\* runningTasks, and no id is in runningTasks once executeTask has returned
\* for its task (the route has answered 202).
C5_RunningImpliesRegistered ==
  /\ \A t \in 1..Len(tasks) : tasks[t].status = "running" => t \in runningTasks
  /\ \A r \in Requests : response[r] = 202 => taskId[r] \notin runningTasks

\* C5 case: a task is persisted as running, registered, with its fan-out in
\* flight.
C5_Witness ==
  \E r \in Requests :
    /\ pc[r] = "bulk" /\ bulk[r].phase = "running"
    /\ tasks[taskId[r]].status = "running"
    /\ taskId[r] \in runningTasks

\* The events of task t, in emission order.
EventsOf(t) == SelectSeq(events, LAMBDA e : e.taskId = t)

TerminalEvents == {"taskCompleted", "taskFailed"}

\* C6: within one task the events come as taskStarted, then taskProgress
\* events, then the terminal event: the first event of a task is its
\* taskStarted, nothing follows a taskCompleted or taskFailed, and
\* taskStarted is never repeated.
C6_EventOrder ==
  \A t \in 1..Len(tasks) :
    LET es == EventsOf(t) IN
    \A j \in 1..Len(es) :
      /\ (j = 1) <=> (es[j].type = "taskStarted")
      /\ es[j].type \in TerminalEvents => j = Len(es)

\* C6 case: a task has emitted taskStarted, two taskProgress and taskCompleted.
C6_Witness ==
  \E t \in 1..Len(tasks) :
    LET es == EventsOf(t) IN
    /\ Len(es) = 4
    /\ es[1].type = "taskStarted"
    /\ es[2].type = "taskProgress"
    /\ es[3].type = "taskProgress"
    /\ es[4].type = "taskCompleted"

\* executeTask of request r is past persisting and registering the task
\* and has not come to its end.
InFlight(r) ==
  pc[r] \in {"getServers", "updateRunning", "bulk", "addLog", "updateServer",
             "updateFinal", "updateFailed"}

\* C7: submit is asynchronous: once the pending task is persisted and
\* registered, the caller of executeTask holds the task id (the route has
\* answered 202) while the fan-out is still in progress.
C7_CallerAnsweredWhileInFlight ==
  \A r \in Requests : InFlight(r) => response[r] = 202

\* C8: a task none of whose targetIds resolved to a host, once executeTask
\* is over, is persisted as failed without having been running and without
\* aggregate, has a taskFailed event, is out of runningTasks, and the
\* dispatcher was never invoked for it: no log row and no taskProgress event.
C8_NoHostsFailsDirectly ==
  \A r \in Requests :
    (pc[r] = "done" /\ taskId[r] # 0 /\ raised[r] = NoServersError) =>
      LET t == taskId[r] IN
      /\ tasks[t].status = "failed"
      /\ tasks[t].completed_at = 1
      /\ ~IsAggregate(tasks[t].results)
      /\ \E j \in 1..Len(events) :
           events[j].type = "taskFailed" /\ events[j].taskId = t
      /\ t \notin runningTasks
      /\ bulk[r].phase = "none"
      /\ \A j \in 1..Len(logs) : logs[j].task_id # t
      /\ \A j \in 1..Len(events) :
           events[j].taskId = t => events[j].type # "taskProgress"

\* C9: a task whose executeTask caught an exception, once executeTask is
\* over, is persisted as failed with the error text, is out of runningTasks
\* and has a taskFailed event.
C9_ExceptionFailsTask ==
  \A r \in Requests :
    (pc[r] = "done" /\ taskId[r] # 0 /\ raised[r] # NULL) =>
      LET t == taskId[r] IN
      /\ tasks[t].status = "failed"
      /\ tasks[t].results = <<[error |-> raised[r]]>>
      /\ t \notin runningTasks
      /\ \E j \in 1..Len(events) :
           /\ events[j].type = "taskFailed"
           /\ events[j].taskId = t
           /\ events[j].error = raised[r]

\* The body of request r has an empty serverIds list or an empty command.
EmptyInput(r) ==
  pc[r] # "idle" /\ (body[r].serverIds = <<>> \/ body[r].command = "")

\* C10: a submission with an empty serverIds list or an empty command is
\* answered 400 and executeTask is never called for it; so no task row has an
\* empty server list or an empty command, and every row, registry entry and
\* event belongs to a request that passed validation.
C10_EmptyInputRejected ==
  /\ \A r \in Requests :
       EmptyInput(r) =>
         /\ pc[r] = "done" /\ response[r] = 400
         /\ taskId[r] = 0 /\ ret[r] = NoPromise
  /\ \A t \in 1..Len(tasks) :
       tasks[t].server_ids # <<>> /\ tasks[t].command # ""
  /\ Len(tasks) <= Cardinality({r \in Requests : pc[r] # "idle" /\ ~EmptyInput(r)})
  /\ runningTasks \subseteq 1..Len(tasks)
  /\ \A j \in 1..Len(events) : events[j].taskId \in 1..Len(tasks)

\* C10 case: a request with a command and an empty serverIds list has been
\* answered 400.
C10_Witness ==
  \E r \in Requests :
    /\ pc[r] = "done" /\ response[r] = 400
    /\ body[r].serverIds = <<>> /\ body[r].command = "cmd"
    /\ body[r].maxConcurrent = <<>>

\* C12: completed_at is set exactly once, at the task's terminal transition:
\* it is unset while the task is pending or running, and a task in a
\* terminal state has had it written once.
C12_CompletedAtOnceAtTerminal ==
  \A t \in 1..Len(tasks) :
    /\ tasks[t].status \in {"pending", "running"} => tasks[t].completed_at = 0
    /\ tasks[t].status \in Terminal => tasks[t].completed_at = 1

\* The states an executeCommand call can be in: awaiting ssh.connect,
\* awaiting ssh.execCommand, or resolved with a result.
CallStates == {"connecting", "executing", "done"}

\* The executeCommand calls of request r's current batch that have resolved.
SettledCalls(r) ==
  {j \in 1..Len(bulk[r].batch) : bulk[r].batch[j].st = "done"}

\* res is the failure executeCommand returns for an operational error.
IsOperationalFailure(res) ==
  /\ ~res.success
  /\ res.code = AuthFailCode
  /\ res.error \in {NoAuthError, TransportError}
  /\ res.stderr = res.error

\* res is what executeCommand returns when the remote command ended.
IsCommandOutcome(res) ==
  /\ res.code \in ExitCodes
  /\ res.success <=> (res.code = 0)
  /\ res.error = NULL

\* C13: executeCommand never raises: a call is pending or has resolved,
\* never rejected, and every result it resolved with is either the outcome
\* of the remote command (success exactly when the exit code is 0) or, for
\* an authentication, connection or transport error, a result with
\* success false, code -1 and the error text as stderr.
C13_ExecuteCommandNeverRaises ==
  \A r \in Requests :
    /\ \A j \in 1..Len(bulk[r].batch) : bulk[r].batch[j].st \in CallStates
    /\ \A j \in SettledCalls(r) :
         LET res == bulk[r].batch[j].result IN
         IsOperationalFailure(res) \/ IsCommandOutcome(res)
    /\ \A q \in 1..Len(bulk[r].results) :
         LET res == bulk[r].results[q] IN
         IsOperationalFailure(res) \/ IsCommandOutcome(res)

\* C13 case: one batch whose three calls ended with a missing credential, a
\* transport error and a non-zero exit code.
C13_Witness ==
  \E r \in Requests :
    /\ Len(bulk[r].batch) = 3 /\ SettledCalls(r) = 1..3
    /\ \E a, b, c \in 1..3 :
         /\ bulk[r].batch[a].result.error = NoAuthError
         /\ bulk[r].batch[b].result.error = TransportError
         /\ bulk[r].batch[c].result.code = 1

\* The executeCommand calls of request r that hold an open session.
OpenCalls(r) ==
  {j \in 1..Len(bulk[r].batch) : bulk[r].batch[j].st = "executing"}

RECURSIVE SumOver(_, _)
SumOver(f, S) ==
  IF S = {} THEN 0
  ELSE LET x == CHOOSE y \in S : TRUE IN f[x] + SumOver(f, S \ {x})

\* C14: every executeCommand call opens at most one session, shares it with
\* no other call and releases it on every exit path: the open sessions are
\* exactly one per call that is inside ssh.execCommand, and none is left
\* open when no call is in flight, whatever way the calls ended.
C14_SessionDiscipline ==
  /\ sessions = SumOver([r \in Requests |-> Cardinality(OpenCalls(r))], Requests)
  /\ (\A r \in Requests : bulk[r].phase # "running") => sessions = 0

\* C14 case: a fan-out has returned with no session left open after one
\* call ended with exit code 0, one with exit code 1 and one with a
\* transport error.
C14_Witness ==
  \E r \in Requests :
    /\ bulk[r].phase = "returned" /\ sessions = 0
    /\ \E a, b, c \in 1..Len(bulk[r].results) :
         /\ bulk[r].results[a].error = TransportError
         /\ bulk[r].results[b].code = 0
         /\ bulk[r].results[c].code = 1

\* Private-key material is available for server: its key file exists.
HasKey(server) == server.private_key_path /\ server.key_file

\* The positions of request r's validServers whose host has neither a key
\* nor a password.
NoCredentialPositions(r) ==
  {q \in 1..Len(validServers[r]) :
     ~validServers[r][q].private_key_path /\ ~validServers[r][q].password}

\* C15: a call for a host with a key and a password connects with the key;
\* a call for a host with neither never attempts a connection: it is
\* resolved from the start with success false and code -1, and the task's
\* aggregate holds exactly that one failure at the host's position.
C15_AuthSelection ==
  \A r \in Requests :
    /\ \A j \in 1..Len(bulk[r].batch) :
         LET call == bulk[r].batch[j] IN
         /\ (HasKey(call.server) /\ call.server.password) => call.auth = "privateKey"
         /\ (~HasKey(call.server) /\ call.server.password) => call.auth = "password"
         /\ (~call.server.private_key_path /\ ~call.server.password) =>
              /\ call.st = "done"
              /\ call.result = FailedResult(call.server, NoAuthError)
              /\ ~call.result.success /\ call.result.code = AuthFailCode
    /\ (taskId[r] # 0 /\ IsAggregate(tasks[taskId[r]].results)) =>
         LET agg == tasks[taskId[r]].results[1] IN
         /\ \A q \in NoCredentialPositions(r) :
              agg.results[q] = FailedResult(validServers[r][q], NoAuthError)
         /\ agg.totalCount - agg.successCount >= Cardinality(NoCredentialPositions(r))

\* C15 case: the aggregate of a task over host 1 (key and password), which
\* succeeded, and host 3 (no credential) is persisted with one success and
\* one failure.
C15_Witness ==
  \E r \in Requests :
    /\ taskId[r] # 0 /\ IsAggregate(tasks[taskId[r]].results)
    /\ body[r].serverIds = <<1, 3>>
    /\ tasks[taskId[r]].results[1].successCount = 1
    /\ tasks[taskId[r]].results[1].totalCount = 2

\* The executeCommand calls of request r that have not resolved.
PendingCalls(r) ==
  {j \in 1..Len(bulk[r].batch) : bulk[r].batch[j].st # "done"}

\* C16: with maxConcurrent = k, at most k executions are in flight for a
\* task at any moment; the batches are the consecutive slices of at most k
\* hosts of the resolved host list, taken in order; and no execution of a
\* batch starts before every execution of the batches before it has
\* finished (all their results are collected when the batch is started).
C16_BoundedConcurrency ==
  \A r \in Requests :
    LET b == bulk[r] IN
    b.phase # "none" =>
      /\ b.k = MaxConcurrentOf(body[r])
      /\ Cardinality(PendingCalls(r)) <= b.k
      /\ Len(b.batch) <= b.k
      /\ b.i % b.k = 0
      /\ b.phase = "running" =>
           /\ Len(b.results) = b.i
           /\ Len(b.batch) = Min(b.k, Len(validServers[r]) - b.i)
           /\ \A j \in 1..Len(b.batch) :
                b.batch[j].server = validServers[r][b.i + j]
      /\ \A q \in 1..Len(b.results) : b.results[q].server = validServers[r][q].id

\* C16 case: three hosts with maxConcurrent 2: the second batch, of one
\* host, is in flight after the first batch of two has been collected.
C16_Witness ==
  \E r \in Requests :
    /\ bulk[r].phase = "running" /\ bulk[r].k = 2 /\ bulk[r].i = 2
    /\ Len(validServers[r]) = 3
    /\ Len(bulk[r].results) = 2
    /\ Cardinality(PendingCalls(r)) = 1

\* The ids of request r's serverIds that name a row of the servers table,
\* in the order given.
ResolvedIds(r) == SelectSeq(body[r].serverIds, LAMBDA id : id \in DOMAIN servers)

\* executeTask of request r has had its server queries answered.
PastResolution(r) ==
  /\ taskId[r] # 0
  /\ pc[r] \notin {"createTask", "getServers"}
  /\ raised[r] # DbError

\* C17: the reported totalCount is the number of targetIds that resolved to
\* a host: ids without a row are left out, get no result, and are counted
\* neither as success nor as failure; and the task goes on with the hosts
\* that remain whenever at least one id resolves.
C17_TotalCountIsResolvedCount ==
  \A r \in Requests :
    /\ PastResolution(r) =>
         /\ Len(validServers[r]) = Len(ResolvedIds(r))
         /\ \A q \in 1..Len(validServers[r]) : validServers[r][q].id = ResolvedIds(r)[q]
         /\ raised[r] = NoServersError <=> ResolvedIds(r) = <<>>
    /\ (taskId[r] # 0 /\ IsAggregate(tasks[taskId[r]].results)) =>
         LET agg == tasks[taskId[r]].results[1] IN
         /\ agg.totalCount = Len(ResolvedIds(r))
         /\ Len(agg.results) = agg.totalCount
         /\ agg.successCount <= agg.totalCount

\* C17 case: a task over ids 1, 4, 2, of which 4 names no row, is persisted
\* with totalCount 2.
C17_Witness ==
  \E r \in Requests :
    /\ taskId[r] # 0 /\ IsAggregate(tasks[taskId[r]].results)
    /\ body[r].serverIds = <<1, 4, 2>>
    /\ tasks[taskId[r]].results[1].totalCount = 2

\* The task ids getRunningTasks returns.
ListedIds == {e.taskId : e \in GetRunningTasks}

\* Request r has a task none of whose serverIds names a row.
NoResolvableHost(r) == taskId[r] # 0 /\ ResolvedIds(r) = <<>>

\* C18 as stated: a task whose resolvable host set is empty is never
\* returned by getRunningTasks.
C18_NeverListed ==
  \A r \in Requests : NoResolvableHost(r) => taskId[r] \notin ListedIds

\* C18 amended: a task whose resolvable host set is empty never has the
\* persisted state running and is not returned by getRunningTasks once
\* executeTask has returned for it; from its registration until then, while
\* the server queries and the failed-status write are pending,
\* getRunningTasks returns it.
C18_ListedOnlyUntilFailed ==
  \A r \in Requests :
    NoResolvableHost(r) =>
      /\ tasks[taskId[r]].status # "running"
      /\ response[r] = 202 => taskId[r] \notin ListedIds
      /\ pc[r] \in {"getServers", "updateFailed"} => taskId[r] \in ListedIds
      /\ pc[r] \in {"getServers", "updateFailed", "done"}

\* C18 case: executeTask has returned for a task whose only id names no
\* row: the task is failed and getRunningTasks does not return it.
C18_Witness ==
  \E r \in Requests :
    /\ NoResolvableHost(r) /\ raised[r] = NoServersError
    /\ response[r] = 202
    /\ tasks[taskId[r]].status = "failed"
    /\ taskId[r] \notin ListedIds

\* The log rows of task t, in insertion order.
LogsOf(t) == SelectSeq(logs, LAMBDA l : l.task_id = t)

\* The taskProgress events of task t, in emission order.
ProgressOf(t) == SelectSeq(events, LAMBDA e : e.taskId = t /\ e.type = "taskProgress")

\* The first n results of request r each have their log row, their host's
\* status set from them and their taskProgress event.
Handled(r, res, n) ==
  /\ Len(LogsOf(taskId[r])) >= n
  /\ Len(ProgressOf(taskId[r])) >= n
  /\ \A q \in 1..n :
       /\ LogsOf(taskId[r])[q].server_id = res[q].server
       /\ ProgressOf(taskId[r])[q].serverId = res[q].server
       /\ ProgressOf(taskId[r])[q].success = res[q].success
       /\ servers[res[q].server].status \in {"online", "error"}

\* C19: every result is handled as it becomes available, without waiting
\* for later batches: when a batch is started, the results collected from
\* the batches before it each have one log row, their host's status set and
\* one taskProgress event; and a task persisted as completed or partial has
\* exactly totalCount log rows and exactly totalCount taskProgress events.
C19_HandledAsAvailable ==
  \A r \in Requests :
    /\ bulk[r].phase = "running" => Handled(r, bulk[r].results, Len(bulk[r].results))
    /\ (taskId[r] # 0 /\ tasks[taskId[r]].status \in {"completed", "partial"}) =>
         LET agg == tasks[taskId[r]].results[1] IN
         /\ Len(LogsOf(taskId[r])) = agg.totalCount
         /\ Len(ProgressOf(taskId[r])) = agg.totalCount
         /\ Handled(r, agg.results, agg.totalCount)

\* The batch of executeBulkCommand that position q of the host list falls
\* in, for batches of k hosts, counting from 0.
BatchOf(q, k) == (q - 1) \div k

\* C20: within one task every taskProgress event for a host of batch N is
\* published before every taskProgress event for a host of batch N + 1: the
\* j-th event of the task is for the host at position j of the resolved
\* host list, whose batch numbers never decrease along the list.
C20_ProgressInBatchOrder ==
  \A r \in Requests :
    (taskId[r] # 0 /\ bulk[r].phase # "none") =>
      LET ps == ProgressOf(taskId[r]) IN
      /\ Len(ps) <= Len(validServers[r])
      /\ \A j \in 1..Len(ps) : ps[j].serverId = validServers[r][j].id
      /\ \A a, b \in 1..Len(ps) :
           BatchOf(a, bulk[r].k) < BatchOf(b, bulk[r].k) => a < b

\* C20 case: hosts 2 and 1 ran in two batches of one and both taskProgress
\* events are out, the one for host 2 first.
C20_Witness ==
  \E r \in Requests :
    /\ taskId[r] # 0 /\ bulk[r].k = 1
    /\ body[r].serverIds = <<2, 1>>
    /\ Len(ProgressOf(taskId[r])) = 2
    /\ ProgressOf(taskId[r])[1].serverId = 2
    /\ ProgressOf(taskId[r])[2].serverId = 1

\* The other of the two requests.
Other(r) == CHOOSE o \in TwoRequests : o # r

\* executeTask of request r is over: it has returned or rejected.
Over(r) == pc[r] = "done" /\ taskId[r] # 0

\* C11: two tasks submitted at the same time over disjoint host sets both
\* come to a terminal state; each task's terminal state and aggregate are
\* computed from the results of its own hosts alone; a task's registry entry
\* stays while its executeTask runs, whatever becomes of the other task; and
\* the registry holds no task id once that task's executeTask is over.
C11_ConcurrentTasksIndependent ==
  \A r \in TwoRequests :
    /\ Over(r) =>
         /\ tasks[taskId[r]].status \in Terminal
         /\ taskId[r] \notin runningTasks
    /\ (taskId[r] # 0 /\ IsAggregate(tasks[taskId[r]].results)) =>
         LET agg == tasks[taskId[r]].results[1] IN
         /\ agg = Aggregate(bulk[r].results)
         /\ tasks[taskId[r]].status = FinalStatus(agg.successRate)
         /\ \A q \in 1..Len(agg.results) :
              agg.results[q].server = body[r].serverIds[q]
    /\ InFlight(r) => taskId[r] \in runningTasks
    /\ taskId[r] # 0 => taskId[r] # taskId[Other(r)]

\* C21: the isRunning flag that GET /api/tasks/:id returns for a task is
\* true exactly when the task's id is in the running registry.
C21_IsRunningIffRegistered ==
  \A t \in 1..Len(tasks) :
    GetTaskById(t)[1].isRunning <=> t \in runningTasks

\* The status and the aggregate data that getStatus returns for task t.
StatusData(t) ==
  LET ans == GetTaskById(t)[1] IN [status |-> ans.status, results |-> ans.results]

\* C22: once a task is terminal, repeated getStatus calls for it return
\* the same state and the same aggregate data, whatever steps this or
\* another task takes in between.
C22_TerminalStatusStable ==
  [][\A t \in 1..Len(tasks) :
       tasks[t].status \in Terminal => StatusData(t)' = StatusData(t)]_vars

\* C22 case: one task is terminal with an aggregate while the other task's
\* fan-out is in flight.
C22_Witness ==
  \E r \in TwoRequests :
    /\ taskId[r] # 0 /\ tasks[taskId[r]].status \in Terminal
    /\ IsAggregate(GetTaskById(taskId[r])[1].results)
    /\ pc[Other(r)] = "bulk" /\ bulk[Other(r)].phase = "running"

\* C23: every host descriptor that POST or PUT /api/servers accepted and
\* stored has exactly one authentication method: a private key path or a
\* password, never both and never neither.
C23_ExactlyOneAuthMethod ==
  \A id \in DOMAIN servers :
    servers[id].private_key_path # servers[id].password

\* Request r runs scenario A: three resolved hosts with maxConcurrent 2.
ScenarioA(r) ==
  /\ taskId[r] # 0 /\ Len(validServers[r]) = 3
  /\ body[r].maxConcurrent = <<2>>

\* C24: a task over three resolvable hosts with maxConcurrent 2 runs two
\* batches, of two hosts and then of one; when exactly two hosts succeed
\* and one fails it stores 3 results with successCount 2 and totalCount 3
\* and ends as partial.
C24_ScenarioA ==
  \A r \in Requests :
    ScenarioA(r) =>
      LET b == bulk[r] IN
      /\ b.phase = "running" =>
           \/ b.i = 0 /\ Len(b.batch) = 2 /\ b.delays = 0
           \/ b.i = 2 /\ Len(b.batch) = 1 /\ b.delays = 1
      /\ b.phase = "returned" => Len(b.results) = 3 /\ b.delays = 1
      /\ (response[r] = 202 /\ raised[r] = NULL /\ SuccessCount(b.results) = 2) =>
           LET row == tasks[taskId[r]] IN
           /\ row.status = "partial"
           /\ IsAggregate(row.results)
           /\ Len(row.results[1].results) = 3
           /\ row.results[1].successCount = 2
           /\ row.results[1].totalCount = 3
           /\ row.results[1].successRate = [num |-> 200, den |-> 3]

\* C24 case: hosts 1, 2, 3 with maxConcurrent 2, where 1 and 2 succeeded and
\* 3 failed, after executeTask returned.
C24_Witness ==
  \E r \in Requests :
    /\ ScenarioA(r) /\ body[r].serverIds = <<1, 2, 3>>
    /\ response[r] = 202 /\ raised[r] = NULL
    /\ bulk[r].results[1].success /\ bulk[r].results[2].success
    /\ ~bulk[r].results[3].success
    /\ tasks[taskId[r]].status = "partial"

\* The least number of batches of k hosts that hold n hosts.
CeilDiv(n, k) == (n + k - 1) \div k

\* C25: executeBulkCommand waits once after every batch but the last: over
\* n hosts in batches of k it has waited ceil(n/k) - 1 times when it
\* returns and once per earlier batch while a batch runs; while it waits no
\* execution is in flight, the batch before is collected and hosts remain.
C25_DelayBetweenBatches ==
  \A r \in Requests :
    LET b == bulk[r]
        n == Len(validServers[r]) IN
    /\ b.phase = "running" => b.delays = b.i \div b.k
    /\ b.phase = "delay" =>
         /\ b.batch = <<>>
         /\ Len(b.results) = Min(b.i + b.k, n)
         /\ b.i + b.k < n
         /\ b.delays = b.i \div b.k + 1
    /\ b.phase = "returned" => b.delays = CeilDiv(n, b.k) - 1

\* C25 case: three hosts in batches of one have run with two waits.
C25_Witness ==
  \E r \in Requests :
    /\ bulk[r].phase = "returned" /\ bulk[r].k = 1
    /\ Len(validServers[r]) = 3
    /\ bulk[r].delays = 2

Moves(t, old, new) == tasks[t].status = old /\ tasks'[t].status = new

\* C27 as stated: a task's persisted state moves only pending -> running,
\* running -> completed, partial or failed, or pending -> failed when the
\* resolution of its hosts failed; a terminal state never changes.
C27_TransitionsResolutionOnly ==
  [][\A t \in 1..Len(tasks) :
       tasks'[t].status # tasks[t].status =>
         \/ Moves(t, "pending", "running")
         \/ \E new \in Terminal : Moves(t, "running", new)
         \/ /\ Moves(t, "pending", "failed")
            /\ \A r \in OwnersOf(t) : validServers[r] = <<>>]_vars

\* C27 amended: a task's persisted state moves only pending -> running,
\* running -> completed, partial or failed, or pending -> failed when
\* executeTask caught an exception before the dispatcher was invoked (the
\* resolution failed, or persisting running failed); a terminal state never
\* changes.
C27_Transitions ==
  [][\A t \in 1..Len(tasks) :
       tasks'[t].status # tasks[t].status =>
         \/ Moves(t, "pending", "running")
         \/ \E new \in Terminal : Moves(t, "running", new)
         \/ /\ Moves(t, "pending", "failed")
            /\ \A r \in OwnersOf(t) :
                 raised[r] # NULL /\ bulk[r].phase = "none"]_vars

\* C27 case: a task went from pending straight to failed, by its only
\* write, although its hosts had resolved: persisting running had failed.
C27_Witness ==
  \E r \in Requests :
    /\ taskId[r] # 0 /\ tasks[taskId[r]].status = "failed"
    /\ tasks[taskId[r]].completed_at = 1
    /\ validServers[r] # <<>> /\ bulk[r].phase = "none"

\* C28 as stated: a task ends in failed exactly when an exception occurred
\* before any result of it was produced: a failed task has no aggregate, no
\* log row and no taskProgress event, and a task whose executeTask caught an
\* exception with no result produced is failed once executeTask is over.
C28_FailedIffNoResult ==
  \A r \in Requests :
    taskId[r] # 0 =>
      LET t == taskId[r] IN
      /\ tasks[t].status = "failed" =>
           /\ ~IsAggregate(tasks[t].results)
           /\ LogsOf(t) = <<>>
           /\ ProgressOf(t) = <<>>
      /\ (Over(r) /\ raised[r] # NULL /\ LogsOf(t) = <<>>) =>
           tasks[t].status = "failed"

\* C28 amended: a task is failed exactly when executeTask caught an
\* exception, before or after results were produced, and its write of
\* 'failed' was applied; a failed task has the error text and no aggregate,
\* and an aggregate is present exactly in the states completed and partial.
C28_FailedIffCaught ==
  \A r \in Requests :
    taskId[r] # 0 =>
      LET row == tasks[taskId[r]] IN
      /\ row.status = "failed" =>
           /\ raised[r] # NULL
           /\ row.results = <<[error |-> raised[r]]>>
           /\ pc[r] \in {"updateFailed", "done"}
      /\ (raised[r] # NULL /\ response[r] = 202) => row.status = "failed"
      /\ (raised[r] # NULL /\ pc[r] = "done" /\ response[r] # 202) =>
           row.status \in {"pending", "running"}
      /\ IsAggregate(row.results) <=> row.status \in {"completed", "partial"}
      /\ row.status \in {"completed", "partial"} => raised[r] = NULL

\* C28 case: a task is failed although a log row and a taskProgress event
\* of its first result are there: a later persistence call was rejected.
C28_Witness ==
  \E r \in Requests :
    /\ taskId[r] # 0 /\ tasks[taskId[r]].status = "failed"
    /\ Len(LogsOf(taskId[r])) >= 1
    /\ Len(ProgressOf(taskId[r])) >= 1

\* C29: the dispatcher is invoked for a task only after the state running
\* was persisted: while the persisted state is pending no executeCommand
\* call of the task exists, and a task that went to failed by its first
\* write (persisting running had failed, or the resolution) never had one.
C29_DispatchAfterRunning ==
  \A r \in Requests :
    taskId[r] # 0 =>
      LET row == tasks[taskId[r]] IN
      /\ bulk[r].phase # "none" =>
           row.status # "pending" /\ row.completed_at >= 1
      /\ row.status = "pending" =>
           bulk[r].phase = "none" /\ bulk[r].batch = <<>> /\ results[r] = <<>>
      /\ (row.status = "failed" /\ row.completed_at = 1) => bulk[r].phase = "none"
      /\ (pc[r] = "updateFailed" /\ row.status = "pending") => bulk[r].phase = "none"

\* C29 case: a call is inside ssh.execCommand for a task persisted as
\* running.
C29_Witness ==
  \E r \in Requests :
    /\ taskId[r] # 0 /\ tasks[taskId[r]].status = "running"
    /\ OpenCalls(r) # {}

\* taskStarted has been published for the task of request r.
Started(r) ==
  taskId[r] # 0 /\ \E j \in 1..Len(events) :
    events[j].type = "taskStarted" /\ events[j].taskId = taskId[r]

\* How many terminal events have been published for the task of request r.
TerminalCount(r) ==
  Cardinality({j \in 1..Len(events) :
                 events[j].taskId = taskId[r] /\ events[j].type \in TerminalEvents})

\* C30: for every task whose taskStarted was published exactly one terminal
\* event is eventually published: never two, and in the end one, whatever
\* the hosts' outcomes and whichever persistence calls fail.
C30_OneTerminalEventEventually ==
  /\ [](\A r \in Requests : TerminalCount(r) <= 1)
  /\ \A r \in Requests : Started(r) ~> (TerminalCount(r) = 1)

\* C31: every task id put into runningTasks is eventually removed from it,
\* whatever the hosts' outcomes and whichever persistence calls fail, the
\* updateTaskStatus call of the catch block included.
C31_RegisteredEventuallyRemoved ==
  \A r \in Requests :
    (taskId[r] # 0 /\ taskId[r] \in runningTasks) ~> (taskId[r] \notin runningTasks)

\* C32: executeBulkCommand terminates for every finite host list and every
\* integer options.maxConcurrent, zero and the negative ones included: each
\* pass of the loop moves the index i forward, and every call returns.
C32_BulkTerminates ==
  /\ [][\A r \in Requests :
         (bulk[r].phase # "none" /\ bulk[r].i' # bulk[r].i) => bulk[r].i' > bulk[r].i]_vars
  /\ \A r \in Requests : (pc[r] = "bulk") ~> (bulk[r].phase = "returned")

\* The hosts of the results res, in order.
HostsOf(res) == [q \in 1..Len(res) |-> res[q].server]

\* The sequence s, read through the field reader Host, names the first
\* Len(s) hosts of the list hosts, in order.
InOrderOf(s, Host(_), hosts) ==
  /\ Len(s) <= Len(hosts)
  /\ \A q \in 1..Len(s) : Host(s[q]) = hosts[q].id

\* C33: the results executeBulkCommand returns are in the order of the input
\* hosts, in whatever order the calls of a batch settle; and so the log rows
\* and the taskProgress events of a task come in the order of its serverIds
\* (those that resolved).
C33_ResultsInInputOrder ==
  \A r \in Requests :
    (taskId[r] # 0 /\ bulk[r].phase # "none") =>
      LET hosts == validServers[r]
          ids == ResolvedIds(r) IN
      /\ Len(hosts) = Len(ids)
      /\ \A j \in 1..Len(hosts) : hosts[j].id = ids[j]
      /\ InOrderOf(bulk[r].results, LAMBDA x : x.server, hosts)
      /\ bulk[r].phase = "returned" => Len(bulk[r].results) = Len(hosts)
      /\ pc[r] # "bulk" => results[r] = bulk[r].results
      /\ InOrderOf(LogsOf(taskId[r]), LAMBDA x : x.server_id, hosts)
      /\ InOrderOf(ProgressOf(taskId[r]), LAMBDA x : x.serverId, hosts)

\* C33 case: hosts 1 and 3 ran in one batch; the call for host 3, which has
\* no credential, settled before host 1 was connected, and the results, the
\* log rows and the taskProgress events are for host 1, then host 3.
C33_Witness ==
  \E r \in Requests :
    /\ taskId[r] # 0 /\ response[r] = 202
    /\ body[r].serverIds = <<1, 3>> /\ bulk[r].k >= 2
    /\ HostsOf(results[r]) = <<1, 3>>
    /\ results[r][1].error = NULL /\ results[r][2].error = NoAuthError
    /\ Len(LogsOf(taskId[r])) = 2 /\ LogsOf(taskId[r])[1].server_id = 1
    /\ Len(ProgressOf(taskId[r])) = 2 /\ ProgressOf(taskId[r])[2].serverId = 3

\* Events a and b are the taskStarted and the taskCompleted of task t.
StartedAndCompleted(t, a, b) ==
  /\ events[a].taskId = t /\ events[a].type = "taskStarted"
  /\ events[b].taskId = t /\ events[b].type = "taskCompleted"

\* C34 as stated: for every task that publishes taskCompleted, the
\* serverCount of its taskStarted event equals the totalCount of its
\* taskCompleted event and of its persisted aggregate.
C34_StartedCountIsTotalCount ==
  \A b \in 1..Len(events) :
    events[b].type = "taskCompleted" =>
      \A a \in 1..Len(events) :
        StartedAndCompleted(events[b].taskId, a, b) =>
          LET row == tasks[events[b].taskId] IN
          /\ events[a].serverCount = events[b].totalCount
          /\ IsAggregate(row.results)
          /\ row.results[1].totalCount = events[b].totalCount

\* C34 amended: for every task that publishes taskCompleted, the totalCount
\* of the event equals the totalCount of the persisted aggregate and is the
\* number of the task's serverIds that resolved to a host, while the
\* serverCount of taskStarted is the number of serverIds submitted: totalCount
\* is at most serverCount, and equal to it exactly when every id resolved.
C34_CountsAgree ==
  \A b \in 1..Len(events) :
    events[b].type = "taskCompleted" =>
      \A a \in 1..Len(events) :
        StartedAndCompleted(events[b].taskId, a, b) =>
          LET row == tasks[events[b].taskId]
              ids == row.server_ids
              resolved == SelectSeq(ids, LAMBDA id : id \in DOMAIN servers) IN
          /\ events[a].serverCount = Len(ids)
          /\ events[b].totalCount = Len(resolved)
          /\ IsAggregate(row.results)
          /\ row.results[1].totalCount = events[b].totalCount
          /\ events[b].totalCount <= events[a].serverCount
          /\ events[b].totalCount = events[a].serverCount <=>
               \A j \in 1..Len(ids) : ids[j] \in DOMAIN servers

\* C34 case: a task over hosts 1 and 4, of which only 1 exists, announced two
\* hosts in taskStarted and reports one in taskCompleted.
C34_Witness ==
  \E t \in 1..Len(tasks) : \E a, b \in 1..Len(events) :
    /\ StartedAndCompleted(t, a, b)
    /\ tasks[t].server_ids = <<1, 4>>
    /\ events[a].serverCount = 2
    /\ events[b].totalCount = 1
    /\ tasks[t].results[1].totalCount = 1
====
